---- MODULE Spec2Model ----
(***************************************************************************)
(* Model of the filesystem cache FsCache (src/implementations/fs_cache.rs) *)
(* behind the Cache trait (src/simple_cache.rs).                           *)
(*                                                                         *)
(* The cache directory is a map from file paths to files.  Each of the     *)
(* four trait operations is one atomic action (a sequential caller); a     *)
(* Tick action advances the wall clock read by Utc::now().  The clock is   *)
(* finer than one second (TicksPerSec ticks per second) while expiry       *)
(* files hold whole epoch seconds.  History variables record the most      *)
(* recent call and, for one observed key, the most recent set on it.       *)
(***************************************************************************)
EXTENDS Integers, Sequences, FiniteSets

\* ---------------------------------------------------------------- bounds
\* Clock resolution: ticks per second of Utc::now().
TicksPerSec == 3
\* The clock runs from 1 tick after the epoch origin up to MaxTime ticks.
MaxTime == 4
\* Largest TTL (in ticks) a caller passes to set.
MaxTTL == 1
\* Cap of the count of consecutive invalidate calls on one key.
MaxStreak == 2

\* ---------------------------------------------------------------- inputs
\* Cache keys the callers use.
Keys == {"user:42", "session"}

\* A JSON value: a number or a string.
Num(n) == [kind |-> "num", n |-> n, s |-> <<>>]
Str(s) == [kind |-> "str", n |-> 0, s |-> s]
NoVal == [kind |-> "none", n |-> 0, s |-> <<>>]
Values == {Num(7), Str(<<"A">>)}
\* The type parameter T of get::<T>.
Types == {"num", "str"}

\* Option<Duration>: None, or a duration in ticks.
NoTTL == -1
TTLs == {NoTTL} \cup (0..MaxTTL)

\* ---------------------------------------------------------------- text
Digits == <<"0", "1", "2", "3", "4", "5", "6", "7", "8", "9">>

DigitVal(c) == CHOOSE i \in 0..9 : Digits[i + 1] = c

IsDigit(c) == \E i \in 1..10 : Digits[i] = c

RECURSIVE NatToString(_)
NatToString(n) ==
    IF n < 10 THEN <<Digits[n + 1]>>
    ELSE NatToString(n \div 10) \o <<Digits[(n % 10) + 1]>>

\* i64::to_string / u64::to_string: the decimal text of an integer.
ToString(n) == IF n < 0 THEN <<"-">> \o NatToString(-n) ELSE NatToString(n)

RECURSIVE DigitsToNat(_)
DigitsToNat(s) ==
    IF s = <<>> THEN 0
    ELSE 10 * DigitsToNat(SubSeq(s, 1, Len(s) - 1)) + DigitVal(s[Len(s)])

AllDigits(s) == \A i \in 1..Len(s) : IsDigit(s[i])

\* str::parse::<i64>: an optional sign, then one or more decimal digits.
ParseI64(s) ==
    LET signed == Len(s) > 0 /\ s[1] \in {"+", "-"}
        body == IF signed THEN Tail(s) ELSE s
    IN  IF body = <<>> \/ ~AllDigits(body)
        THEN [ok |-> FALSE, n |-> 0]
        ELSE [ok |-> TRUE,
              n |-> IF signed /\ s[1] = "-" THEN -DigitsToNat(body)
                    ELSE DigitsToNat(body)]

\* serde_json::to_string: a number is its decimal text, a string is quoted.
SerdeToString(v) ==
    IF v.kind = "num" THEN ToString(v.n) ELSE <<"\"">> \o v.s \o <<"\"">>

\* serde_json::from_str::<T>: text that is not a T is an error.
SerdeFromStr(s, T) ==
    IF T = "num"
    THEN IF s # <<>> /\ AllDigits(s) /\ (Len(s) = 1 \/ s[1] # "0")
         THEN [ok |-> TRUE, val |-> Num(DigitsToNat(s))]
         ELSE [ok |-> FALSE, val |-> NoVal]
    ELSE IF Len(s) >= 2 /\ s[1] = "\"" /\ s[Len(s)] = "\""
            /\ \A i \in 2..(Len(s) - 1) : s[i] # "\""
         THEN [ok |-> TRUE, val |-> Str(SubSeq(s, 2, Len(s) - 1))]
         ELSE [ok |-> FALSE, val |-> NoVal]

\* ---------------------------------------------------------------- paths
\* DefaultHasher over the key; distinct keys of the model get distinct hashes.
Hash(k) == IF k = "user:42" THEN 42 ELSE 907

\* cache_dir.join(hash.finish().to_string()): the entry file of a key.
FilePath(k) == [stem |-> ToString(Hash(k)), ext |-> ""]

\* Path::with_extension
WithExtension(p, e) == [stem |-> p.stem, ext |-> e]

\* The expiry file of a key.
ExpiryFilePath(k) == WithExtension(FilePath(k), "expiry")

Paths == {FilePath(k) : k \in Keys} \cup {ExpiryFilePath(k) : k \in Keys}

\* ---------------------------------------------------------------- files
NoFile == [exists |-> FALSE, data |-> <<>>]

\* Path::exists
Exists(d, p) == d[p].exists

\* fs::write: creates the file or replaces its content.
WriteFile(d, p, text) == [d EXCEPT ![p] = [exists |-> TRUE, data |-> text]]

\* fs::remove_file of an existing file.
RemoveFile(d, p) == [d EXCEPT ![p] = NoFile]

\* ---------------------------------------------------------------- clock
\* DateTime::timestamp: whole seconds since the epoch.
Timestamp(t) == t \div TicksPerSec

\* DateTime::from_timestamp(secs, 0)
FromTimestamp(secs) == secs * TicksPerSec

\* ---------------------------------------------------------------- results
OkUnit == [tag |-> "ok", val |-> NoVal]
OkNone == [tag |-> "none", val |-> NoVal]
OkSome(v) == [tag |-> "some", val |-> v]
ErrNotFound == [tag |-> "NotFound", val |-> NoVal]
ErrInvalidData == [tag |-> "InvalidData", val |-> NoVal]

IsErr(r) == r.tag \in {"NotFound", "InvalidData"}


\* ---------------------------------------------------------------- operations
\* fs_set that keeps the content of an entry file that is already there.
fs_set_keep(d, k, v, ttl, t) ==
    LET file_path == FilePath(k)
        d2 == IF Exists(d, file_path) THEN d
              ELSE WriteFile(d, file_path, SerdeToString(v))
        d3 == IF ttl # NoTTL
              THEN WriteFile(d2, WithExtension(file_path, "expiry"),
                             ToString(Timestamp(t + ttl)))
              ELSE d2
    IN  [dir |-> d3, res |-> OkUnit]

\* fs_set that clears the expiry file when no TTL is given.
fs_set_clear(d, k, v, ttl, t) ==
    LET file_path == FilePath(k)
        d2 == WriteFile(d, file_path, SerdeToString(v))
        d3 == IF ttl # NoTTL
              THEN WriteFile(d2, WithExtension(file_path, "expiry"),
                             ToString(Timestamp(t + ttl)))
              ELSE RemoveFile(d2, WithExtension(file_path, "expiry"))
    IN  [dir |-> d3, res |-> OkUnit]

\* FsCache::set on directory d at clock value t.
fs_set(d, k, v, ttl, t) ==
    LET value == SerdeToString(v)
        file_path == FilePath(k)
        d1 == IF Exists(d, file_path) THEN RemoveFile(d, file_path) ELSE d
        d2 == WriteFile(d1, file_path, value)
        expiry_file_path == WithExtension(file_path, "expiry")
        expires_at == t + ttl
        d3 == IF ttl # NoTTL
              THEN WriteFile(d2, expiry_file_path, ToString(Timestamp(expires_at)))
              ELSE d2
    IN  [dir |-> d3, res |-> OkUnit]

\* The comparison of FsCache::get: the expiry instant is before Utc::now().
get_expired(expiry, t) == FromTimestamp(expiry) < t

\* fs_get that reads the entry file before it looks at the expiry file.
fs_get_value_first(d, k, T, t) ==
    LET expiry_file_path == WithExtension(FilePath(k), "expiry")
        expiry == ParseI64(d[expiry_file_path].data)
        file_path == FilePath(k)
        res == SerdeFromStr(d[file_path].data, T)
    IN  IF ~Exists(d, file_path) THEN ErrNotFound
        ELSE IF ~res.ok THEN ErrInvalidData
        ELSE IF Exists(d, expiry_file_path) /\ ~expiry.ok THEN ErrInvalidData
        ELSE IF Exists(d, expiry_file_path) /\ get_expired(expiry.n, t) THEN OkNone
        ELSE OkSome(res.val)

\* fs_get that takes a missing expiry file for an expired entry.
fs_get_closed(d, k, T, t) ==
    LET expiry_file_path == WithExtension(FilePath(k), "expiry")
        expiry == ParseI64(d[expiry_file_path].data)
        file_path == FilePath(k)
        res == SerdeFromStr(d[file_path].data, T)
    IN  IF ~Exists(d, expiry_file_path) THEN OkNone
        ELSE IF ~expiry.ok THEN ErrInvalidData
        ELSE IF get_expired(expiry.n, t) THEN OkNone
        ELSE IF ~Exists(d, file_path) THEN ErrNotFound
        ELSE IF ~res.ok THEN ErrInvalidData
        ELSE OkSome(res.val)

\* FsCache::get::<T> on directory d at clock value t.
fs_get(d, k, T, t) ==
    LET expiry_file_path == WithExtension(FilePath(k), "expiry")
        expiry == ParseI64(d[expiry_file_path].data)
        file_path == FilePath(k)
        res == SerdeFromStr(d[file_path].data, T)
    IN  IF Exists(d, expiry_file_path) /\ ~expiry.ok THEN ErrInvalidData
        ELSE IF Exists(d, expiry_file_path) /\ get_expired(expiry.n, t) THEN OkNone
        ELSE IF ~Exists(d, file_path) THEN ErrNotFound
        ELSE IF ~res.ok THEN ErrInvalidData
        ELSE OkSome(res.val)

\* fs_invalidate that drops the expiry record instead of writing 0 to it.
fs_invalidate_drop(d, k) ==
    [dir |-> RemoveFile(d, WithExtension(FilePath(k), "expiry")), res |-> OkUnit]

\* fs_invalidate that also deletes the entry file.
fs_invalidate_eager(d, k) ==
    [dir |-> RemoveFile(WriteFile(d, WithExtension(FilePath(k), "expiry"),
                                  ToString(0)),
                        FilePath(k)),
     res |-> OkUnit]

\* FsCache::invalidate on directory d.
fs_invalidate(d, k) ==
    LET expiry_file_path == WithExtension(FilePath(k), "expiry")
    IN  [dir |-> WriteFile(d, expiry_file_path, ToString(0)), res |-> OkUnit]

\* sweep_expired that also takes an expiry instant equal to now as passed.
sweep_expired_le(expiry, t) == FromTimestamp(expiry) <= t

\* sweep_expired that takes every expiry file for passed.
sweep_expired_any(expiry, t) == TRUE

\* The comparison of FsCache::collect_garbage.
sweep_expired(expiry, t) == FromTimestamp(expiry) < t

\* What FsCache::collect_garbage does with one directory entry.
sweep_file(d, path, t) ==
    LET expiry == ParseI64(d[path].data)
        file_path == WithExtension(path, "")
    IN  IF path.ext # "expiry" THEN [dir |-> d, res |-> OkUnit]
        ELSE IF ~Exists(d, path) THEN [dir |-> d, res |-> ErrNotFound]
        ELSE IF ~expiry.ok THEN [dir |-> d, res |-> ErrInvalidData]
        ELSE IF ~sweep_expired(expiry.n, t) THEN [dir |-> d, res |-> OkUnit]
        ELSE IF ~Exists(d, file_path) THEN [dir |-> d, res |-> ErrNotFound]
        ELSE [dir |-> RemoveFile(RemoveFile(d, file_path), path), res |-> OkUnit]

\* The loop of FsCache::collect_garbage over the directory entries in the
\* order read_dir yields them; the first error ends the sweep.
RECURSIVE fs_collect_garbage(_, _, _)
fs_collect_garbage(d, order, t) ==
    IF order = <<>> THEN [dir |-> d, res |-> OkUnit]
    ELSE LET out == sweep_file(d, Head(order), t)
         IN  IF IsErr(out.res) THEN out
             ELSE fs_collect_garbage(out.dir, Tail(order), t)

\* The orders in which fs::read_dir can yield the files of a directory.
RECURSIVE Orders(_)
Orders(S) ==
    IF S = {} THEN {<<>>}
    ELSE UNION {{<<p>> \o o : o \in Orders(S \ {p})} : p \in S}

ReadDir(d) == Orders({p \in Paths : Exists(d, p)})

\* ---------------------------------------------------------------- state
VARIABLES
    dir,        \* the cache directory: path -> file
    now,        \* Utc::now(), in ticks since the epoch origin
    last,       \* the most recent call at this clock value, or Idle
    watch,      \* the key whose history is observed
    lastSet,    \* the most recent set call on the observed key
    touched,    \* an invalidate ran on the observed key since that set
    run         \* the calls in progress when callers run concurrently

vars == <<dir, now, last, watch, lastSet, touched, run>>

NoKey == "-"

Files(d) == {p \in Paths : Exists(d, p)}

\* The invalidate calls on k that ran, back to back, right before this call.
Streak(k) ==
    IF last.op = "invalidate" /\ last.key = k
    THEN IF last.streak < MaxStreak THEN last.streak + 1 ELSE MaxStreak
    ELSE 0

\* The record of a call that leaves directory d behind.
Call(op, k, T, res, d) ==
    [op |-> op, key |-> k, T |-> T, res |-> res,
     removed |-> Cardinality(Files(dir) \ Files(d)),
     streak |-> IF op \in {"get", "invalidate"} THEN Streak(k) ELSE 0]

\* No call has run since the cache was made or the clock last moved.
Idle == [op |-> "idle", key |-> NoKey, T |-> "num", res |-> OkUnit, removed |-> 0,
         streak |-> 0]

\* The observed set call: its value and TTL, the ticks left until the clock
\* reaches the clock value of the call plus the TTL (-1 once it is past
\* that), and whether the call replaced an entry file of other content.
NoSet == [done |-> FALSE, val |-> NoVal, ttl |-> NoTTL, left |-> 0, over |-> FALSE]

\* A set call in progress: where it stands, its arguments, its result.
NoSetCall == [pc |-> "off", val |-> NoVal, ttl |-> NoTTL, res |-> OkUnit]

\* A collect_garbage call in progress: where it stands, the directory
\* entries read_dir has still to yield, its result.
NoSweep == [pc |-> "off", order |-> <<>>, res |-> OkUnit]

\* No concurrent call is in progress.  entryBy and expiryBy name the
\* concurrent set call that last wrote the observed key's entry file and
\* expiry file (0: none did), finished the calls in their order of return.
NoRun == [set |-> <<NoSetCall, NoSetCall>>, gc |-> NoSweep,
          entryBy |-> 0, expiryBy |-> 0, finished |-> <<>>]

EmptyDir == [p \in Paths |-> NoFile]

\* FsCache::new on an empty directory; the clock is past the epoch origin.
Init ==
    /\ dir = EmptyDir
    /\ now \in 1..TicksPerSec
    /\ last = Idle
    /\ watch \in Keys
    /\ lastSet = NoSet
    /\ touched = FALSE
    /\ run = NoRun

set(k, v, ttl) ==
    LET out == fs_set(dir, k, v, ttl, now)
    IN  /\ dir' = out.dir
        /\ last' = Call("set", k, "num", out.res, out.dir)
        /\ IF k = watch
           THEN /\ lastSet' = [done |-> TRUE, val |-> v, ttl |-> ttl,
                               left |-> IF ttl = NoTTL THEN 0 ELSE ttl,
                               over |-> /\ Exists(dir, FilePath(k))
                                        /\ dir[FilePath(k)].data # SerdeToString(v)]
                /\ touched' = FALSE
           ELSE UNCHANGED <<lastSet, touched>>
        /\ UNCHANGED <<now, watch, run>>

\* get that deletes the files of an entry it finds expired.
get_evict(k, T) ==
    LET res == fs_get(dir, k, T, now)
        d == IF res = OkNone
             THEN RemoveFile(RemoveFile(dir, FilePath(k)), ExpiryFilePath(k))
             ELSE dir
    IN  /\ dir' = d
        /\ last' = Call("get", k, T, res, d)
        /\ UNCHANGED <<now, watch, lastSet, touched, run>>

get(k, T) ==
    /\ last' = Call("get", k, T, fs_get(dir, k, T, now), dir)
    /\ UNCHANGED <<dir, now, watch, lastSet, touched, run>>

invalidate(k) ==
    LET out == fs_invalidate(dir, k)
    IN  /\ dir' = out.dir
        /\ last' = Call("invalidate", k, "num", out.res, out.dir)
        /\ touched' = (touched \/ k = watch)
        /\ UNCHANGED <<now, watch, lastSet, run>>

collect_garbage ==
    \E order \in ReadDir(dir) :
        LET out == fs_collect_garbage(dir, order, now)
        IN  /\ dir' = out.dir
            /\ last' = Call("collect_garbage", NoKey, "num", out.res, out.dir)
            /\ UNCHANGED <<now, watch, lastSet, touched, run>>

\* The wall clock advances between calls.
Tick ==
    /\ now < MaxTime
    /\ now' = now + 1
    /\ last' = Idle
    /\ lastSet' = IF lastSet.ttl # NoTTL /\ lastSet.left >= 0
                  THEN [lastSet EXCEPT !.left = @ - 1]
                  ELSE lastSet
    /\ UNCHANGED <<dir, watch, touched, run>>

Next ==
    \/ \E k \in Keys, v \in Values, ttl \in TTLs : set(k, v, ttl)
    \/ \E k \in Keys, T \in Types : get(k, T)
    \/ \E k \in Keys : invalidate(k)
    \/ collect_garbage
    \/ Tick

Spec == Init /\ [][Next]_vars

\* ------------------------------------------------- a corrupted expiry file
Garbage == <<"x">>

\* The expiry file of k exists and its content is no timestamp.
Corrupted(d, k) ==
    Exists(d, ExpiryFilePath(k)) /\ ~ParseI64(d[ExpiryFilePath(k)].data).ok

\* Something outside the cache damages the expiry file of k; at most one
\* expiry file of the directory is damaged at a time.
corrupt(k) ==
    /\ Exists(dir, ExpiryFilePath(k))
    /\ \A j \in Keys : ~Corrupted(dir, j)
    /\ dir' = WriteFile(dir, ExpiryFilePath(k), Garbage)
    /\ last' = Idle
    /\ UNCHANGED <<now, watch, lastSet, touched, run>>

NextCorrupt ==
    \/ \E k \in Keys, v \in Values, ttl \in TTLs : set(k, v, ttl)
    \/ \E k \in Keys, T \in Types : get(k, T)
    \/ \E k \in Keys : invalidate(k)
    \/ collect_garbage
    \/ Tick
    \/ \E k \in Keys : corrupt(k)

SpecCorrupt == Init /\ [][NextCorrupt]_vars

\* ------------------------------------------------------ concurrent callers
\* Calls on the observed key that run concurrently interleave at the file
\* operations of FsCache::set and FsCache::collect_garbage; the clock stands
\* still while they run.
Setters == {1, 2}

SetStep(p, pc, res) ==
    [run EXCEPT !.set[p].pc = pc, !.set[p].res = res,
                !.finished = IF pc = "done" THEN Append(@, p) ELSE @]

\* FsCache::set: file_path.exists()
set_exists(p) ==
    /\ run.set[p].pc = "check"
    /\ run' = SetStep(p, IF Exists(dir, FilePath(watch)) THEN "remove" ELSE "write",
                      OkUnit)
    /\ UNCHANGED <<dir, now, last, watch, lastSet, touched>>

\* FsCache::set: fs::remove_file(&file_path)?
set_remove(p) ==
    /\ run.set[p].pc = "remove"
    /\ IF Exists(dir, FilePath(watch))
       THEN /\ dir' = RemoveFile(dir, FilePath(watch))
            /\ run' = SetStep(p, "write", OkUnit)
       ELSE /\ dir' = dir
            /\ run' = SetStep(p, "done", ErrNotFound)
    /\ UNCHANGED <<now, last, watch, lastSet, touched>>

\* FsCache::set: fs::write(&file_path, value)?
set_write(p) ==
    /\ run.set[p].pc = "write"
    /\ dir' = WriteFile(dir, FilePath(watch), SerdeToString(run.set[p].val))
    /\ run' = [SetStep(p, IF run.set[p].ttl # NoTTL THEN "expiry" ELSE "done", OkUnit)
                 EXCEPT !.entryBy = p]
    /\ UNCHANGED <<now, last, watch, lastSet, touched>>

\* FsCache::set: fs::write(&expiry_file_path, expires_at.timestamp().to_string())?
set_expiry(p) ==
    /\ run.set[p].pc = "expiry"
    /\ dir' = WriteFile(dir, WithExtension(FilePath(watch), "expiry"),
                        ToString(Timestamp(now + run.set[p].ttl)))
    /\ run' = [SetStep(p, "done", OkUnit) EXCEPT !.expiryBy = p]
    /\ UNCHANGED <<now, last, watch, lastSet, touched>>

GcStep(pc, order, res) ==
    [run EXCEPT !.gc = [pc |-> pc, order |-> order, res |-> res]]

\* FsCache::collect_garbage: fs::read_dir(&self.cache_dir)?, which yields the
\* files that are there when the sweep starts, in some order.
gc_read_dir ==
    /\ run.gc.pc = "list"
    /\ \E order \in ReadDir(dir) : run' = GcStep("next", order, OkUnit)
    /\ UNCHANGED <<dir, now, last, watch, lastSet, touched>>

\* FsCache::collect_garbage: the next directory entry; an expiry file is read,
\* parsed and compared with Utc::now().
gc_next ==
    /\ run.gc.pc = "next"
    /\ LET order == run.gc.order
           path == Head(order)
           expiry == ParseI64(dir[path].data)
       IN  run' = IF order = <<>> THEN GcStep("done", order, OkUnit)
                  ELSE IF path.ext # "expiry" THEN GcStep("next", Tail(order), OkUnit)
                  ELSE IF ~Exists(dir, path) THEN GcStep("done", order, ErrNotFound)
                  ELSE IF ~expiry.ok THEN GcStep("done", order, ErrInvalidData)
                  ELSE IF sweep_expired(expiry.n, now)
                       THEN GcStep("rm_entry", order, OkUnit)
                       ELSE GcStep("next", Tail(order), OkUnit)
    /\ UNCHANGED <<dir, now, last, watch, lastSet, touched>>

\* FsCache::collect_garbage: fs::remove_file(file_path)?
gc_rm_entry ==
    /\ run.gc.pc = "rm_entry"
    /\ LET file_path == WithExtension(Head(run.gc.order), "")
       IN  IF Exists(dir, file_path)
           THEN /\ dir' = RemoveFile(dir, file_path)
                /\ run' = GcStep("rm_expiry", run.gc.order, OkUnit)
           ELSE /\ dir' = dir
                /\ run' = GcStep("done", run.gc.order, ErrNotFound)
    /\ UNCHANGED <<now, last, watch, lastSet, touched>>

\* FsCache::collect_garbage: fs::remove_file(path)?
gc_rm_expiry ==
    /\ run.gc.pc = "rm_expiry"
    /\ LET path == Head(run.gc.order)
       IN  IF Exists(dir, path)
           THEN /\ dir' = RemoveFile(dir, path)
                /\ run' = GcStep("next", Tail(run.gc.order), OkUnit)
           ELSE /\ dir' = dir
                /\ run' = GcStep("done", run.gc.order, ErrNotFound)
    /\ UNCHANGED <<now, last, watch, lastSet, touched>>

\* A set call about to start.
SetCall(v, ttl) == [pc |-> "check", val |-> v, ttl |-> ttl, res |-> OkUnit]

\* Directories an earlier set on key k leaves: none ran, or one set ran.
StartDirs(k, t) ==
    {EmptyDir} \cup {fs_set(EmptyDir, k, v, ttl, t).dir : v \in Values, ttl \in TTLs}

\* Two set calls on the observed key start together.
InitSetRace ==
    /\ now \in 1..TicksPerSec
    /\ watch \in Keys
    /\ dir \in StartDirs(watch, now)
    /\ last = Idle
    /\ lastSet = NoSet
    /\ touched = FALSE
    /\ \E v1 \in Values, v2 \in Values, ttl1 \in TTLs, ttl2 \in TTLs :
          run = [NoRun EXCEPT !.set = <<SetCall(v1, ttl1), SetCall(v2, ttl2)>>]

NextSetRace ==
    \E p \in Setters :
        \/ set_exists(p)
        \/ set_remove(p)
        \/ set_write(p)
        \/ set_expiry(p)

SpecSetRace == InitSetRace /\ [][NextSetRace]_vars

\* A set call and a sweep start together on a key that was set and then
\* invalidated, so its old expiry has passed.
InitSweepRace ==
    /\ now \in 1..TicksPerSec
    /\ watch \in Keys
    /\ \E v0 \in Values :
          dir = fs_invalidate(fs_set(EmptyDir, watch, v0, NoTTL, now).dir, watch).dir
    /\ last = Idle
    /\ lastSet = NoSet
    /\ touched = FALSE
    /\ \E v \in Values, ttl \in TTLs :
          run = [NoRun EXCEPT !.set[1] = SetCall(v, ttl),
                              !.gc = [pc |-> "list", order |-> <<>>, res |-> OkUnit]]

NextSweepRace ==
    \/ set_exists(1)
    \/ set_remove(1)
    \/ set_write(1)
    \/ set_expiry(1)
    \/ gc_read_dir
    \/ gc_next
    \/ gc_rm_entry
    \/ gc_rm_expiry

SpecSweepRace == InitSweepRace /\ [][NextSweepRace]_vars

\* ---------------------------------------------------------------- claims
Zero == [exists |-> TRUE, data |-> <<"0">>]

\* The whole seconds an existing, parseable expiry file of k holds in d.
HasExpiry(d, k) == d[ExpiryFilePath(k)].exists /\ ParseI64(d[ExpiryFilePath(k)].data).ok
ExpirySecs(d, k) == ParseI64(d[ExpiryFilePath(k)].data).n

\* The step is a call of operation op (the clock does not move in a call).
Called(op) == now' = now /\ last'.op = op

\* C1: set(K, V, None) immediately followed by get(K) returns V, in every
\* reachable state (also after an earlier set-with-TTL or invalidate on K).
C1_RoundTrip ==
    [][(/\ Called("get") /\ last'.key = watch
        /\ last.op = "set" /\ last.key = watch
        /\ lastSet.ttl = NoTTL
        /\ last'.T = lastSet.val.kind)
       => last'.res = OkSome(lastSet.val)]_vars

\* C2: get(K) on a key with no entry file and no expiry file returns the
\* absent result Ok(None), not an error.
C2_AbsentNotError ==
    [][(/\ Called("get")
        /\ ~dir[FilePath(last'.key)].exists
        /\ ~dir[ExpiryFilePath(last'.key)].exists)
       => last'.res = OkNone]_vars

\* C3: after set(K, V, ttl) with ttl > 0 at time t0, every get(K) at a time t
\* with t0 <= t < t0 + ttl, with no other operation on K in between, returns V.
C3_TtlLive ==
    [][(/\ Called("get") /\ last'.key = watch
        /\ lastSet.done /\ ~touched
        /\ lastSet.ttl > 0 /\ lastSet.left > 0
        /\ last'.T = lastSet.val.kind)
       => last'.res = OkSome(lastSet.val)]_vars

\* C4: after set(K, V, ttl) at time t0, every get(K) at a time later than
\* t0 + ttl returns absent (no value, no error) until the next set on K,
\* however many collect_garbage calls ran in between.
C4_TtlExpired ==
    [][(/\ Called("get") /\ last'.key = watch
        /\ lastSet.done /\ lastSet.ttl # NoTTL
        /\ lastSet.left < 0)
       => last'.res = OkNone]_vars

\* C5: set(K, V, ttl = 0) immediately followed by get(K) at the same clock
\* value returns absent, for every clock value.
C5_ZeroTtl ==
    [][(/\ Called("get") /\ last'.key = watch
        /\ last.op = "set" /\ last.key = watch
        /\ lastSet.ttl = 0 /\ lastSet.left = 0
        /\ last'.T = lastSet.val.kind)
       => last'.res = OkNone]_vars

\* C6: consecutive invalidate(K) calls all succeed, every one after the first
\* leaves the stored state as it was, and a following get(K) returns absent;
\* the same holds at any later clock value while K's expiry file still holds
\* what invalidate wrote.
C6_InvalidateIdempotent ==
    [][/\ Called("invalidate") => last'.res = OkUnit
       /\ (Called("invalidate") /\ last.op = "invalidate" /\ last.key = last'.key)
             => dir' = dir
       /\ (Called("invalidate") /\ dir[ExpiryFilePath(last'.key)] = Zero)
             => dir' = dir
       /\ (Called("get") /\ last.op = "invalidate" /\ last.key = last'.key)
             => last'.res = OkNone
       /\ (Called("get") /\ dir[ExpiryFilePath(last'.key)] = Zero)
             => last'.res = OkNone]_vars

\* Two invalidate calls in a row on a key that holds a value, then a get of
\* it that returned absent.
C6_Witness ==
    /\ last.op = "get" /\ last.streak = 2
    /\ last.res = OkNone
    /\ dir[FilePath(last.key)].exists

\* C7: a get(K) that returns a value returns the value of the most recent
\* set on K (so never the value that set replaced).
C7_NoStaleRead ==
    (last.op = "get" /\ last.key = watch /\ last.res.tag = "some")
        => /\ lastSet.done
           /\ last.res.val = lastSet.val

\* A get that returned a value after a set overwrote a different value.
C7_Witness ==
    /\ last.op = "get" /\ last.key = watch /\ last.res.tag = "some"
    /\ lastSet.over

\* C8: after a collect_garbage call at time t no expiry file with a timestamp
\* earlier than t remains (and so no entry file paired with one), whatever
\* order the directory is enumerated in.
C8_GcReclaims ==
    [][Called("collect_garbage") =>
        \A k \in Keys :
            ~(HasExpiry(dir', k) /\ ExpirySecs(dir', k) * TicksPerSec < now)]_vars

\* C9: collect_garbage leaves unchanged every entry file that has no expiry
\* file, and every entry file and expiry file whose expiry timestamp is not
\* in the past at the time of the sweep.
C9_SweepFrame ==
    [][Called("collect_garbage") =>
        \A k \in Keys :
            /\ ~dir[ExpiryFilePath(k)].exists
                  => dir'[FilePath(k)] = dir[FilePath(k)]
            /\ (HasExpiry(dir, k) /\ ExpirySecs(dir, k) * TicksPerSec >= now)
                  => /\ dir'[FilePath(k)] = dir[FilePath(k)]
                     /\ dir'[ExpiryFilePath(k)] = dir[ExpiryFilePath(k)]]_vars

\* A sweep that removed files and left an entry whose expiry has not passed.
C9_Witness ==
    /\ last.op = "collect_garbage" /\ last.removed > 0
    /\ \E k \in Keys :
          /\ dir[FilePath(k)].exists
          /\ HasExpiry(dir, k) /\ ExpirySecs(dir, k) * TicksPerSec >= now

\* C10: invalidate(K) writes the timestamp 0 to K's expiry file and changes
\* no other file; an entry file disappears only in a collect_garbage call.
C10_InvalidateFrame ==
    [][/\ Called("invalidate")
             => dir' = [dir EXCEPT ![ExpiryFilePath(last'.key)] = Zero]
       /\ \A k \in Keys :
             (dir[FilePath(k)].exists /\ ~dir'[FilePath(k)].exists)
                 => last'.op = "collect_garbage"]_vars

\* An invalidate of a key whose entry file is still there, beside the files
\* of another key.
C10_Witness ==
    /\ last.op = "invalidate"
    /\ dir[FilePath(last.key)].exists
    /\ dir[ExpiryFilePath(last.key)] = Zero
    /\ \E k \in Keys \ {last.key} :
          dir[FilePath(k)].exists /\ dir[ExpiryFilePath(k)].exists

\* C11: when one expiry file holds content that is no timestamp, a
\* collect_garbage call still deletes the entry file and the expiry file of
\* every other key whose expiry has passed, whatever the enumeration order.
C11_SweepIsolation ==
    [][(Called("collect_garbage") /\ \E j \in Keys : Corrupted(dir, j))
       => \A k \in Keys :
             (/\ HasExpiry(dir, k) /\ ExpirySecs(dir, k) * TicksPerSec < now
              /\ dir[FilePath(k)].exists)
                => ~dir'[FilePath(k)].exists /\ ~dir'[ExpiryFilePath(k)].exists]_vars

\* C12: whenever K's expiry file holds a timestamp earlier than the current
\* time, get(K) returns absent without error, whether or not K's entry file
\* exists.
C12_ExpiryFirst ==
    [][(/\ Called("get")
        /\ HasExpiry(dir, last'.key)
        /\ ExpirySecs(dir, last'.key) * TicksPerSec < now)
       => last'.res = OkNone]_vars

\* A get that returned absent for a key with a passed expiry and no entry
\* file.
C12_Witness ==
    /\ last.op = "get" /\ last.res = OkNone
    /\ HasExpiry(dir, last.key) /\ ExpirySecs(dir, last.key) * TicksPerSec < now
    /\ ~dir[FilePath(last.key)].exists

\* C13: set(K, V, None) leaves K's expiry file exactly as it was, present
\* with the same content or absent.
C13_SetKeepsExpiry ==
    [][(Called("set") /\ last'.key = watch /\ lastSet'.ttl = NoTTL)
       => dir'[ExpiryFilePath(watch)] = dir[ExpiryFilePath(watch)]]_vars

\* A set without TTL on a key whose expiry file an earlier call left.
C13_Witness ==
    /\ last.op = "set" /\ last.key = watch /\ lastSet.ttl = NoTTL
    /\ dir[ExpiryFilePath(watch)].exists

\* C14: while K has an entry file holding V and no expiry file, get(K)
\* returns V, and that state of K's files lasts through every clock advance,
\* collect_garbage call, get and operation on another key.
C14_NoExpiryFile ==
    [][\A k \in Keys :
          (dir[FilePath(k)].exists /\ ~dir[ExpiryFilePath(k)].exists)
          => /\ \A v \in Values :
                   (/\ Called("get") /\ last'.key = k /\ last'.T = v.kind
                    /\ dir[FilePath(k)].data = SerdeToString(v))
                   => last'.res = OkSome(v)
             /\ ~(now' = now /\ last'.op \in {"set", "invalidate"} /\ last'.key = k)
                   => /\ dir'[FilePath(k)] = dir[FilePath(k)]
                      /\ ~dir'[ExpiryFilePath(k)].exists]_vars

\* A get that returned the value of an entry without expiry file after the
\* clock has advanced.
C14_Witness ==
    /\ last.op = "get" /\ last.key = watch /\ last.res = OkSome(lastSet.val)
    /\ lastSet.ttl = NoTTL
    /\ ~dir[ExpiryFilePath(watch)].exists
    /\ now > TicksPerSec

\* C18: a get(K) call, whatever it returns, creates, modifies and deletes no
\* file; an expired entry stays on disk.
C18_GetReadOnly ==
    [][Called("get") => dir' = dir]_vars

\* A get that returned absent for an expired entry whose files are still
\* there.
C18_Witness ==
    /\ last.op = "get" /\ last.res = OkNone
    /\ dir[FilePath(last.key)].exists
    /\ HasExpiry(dir, last.key) /\ ExpirySecs(dir, last.key) * TicksPerSec < now
    /\ ExpirySecs(dir, last.key) > 0

\* C19: if get(K) would return a value just before a collect_garbage call,
\* get(K) at the same clock value just after it returns the same value,
\* whether the sweep returned success or an error.
C19_SweepKeepsReadable ==
    [][Called("collect_garbage")
       => \A k \in Keys, T \in Types :
             fs_get(dir, k, T, now).tag = "some"
                => fs_get(dir', k, T, now) = fs_get(dir, k, T, now)]_vars

\* A sweep that removed the files of one key and left another key readable.
C19_Witness ==
    /\ last.op = "collect_garbage" /\ last.removed > 0
    /\ \E k \in Keys, T \in Types : fs_get(dir, k, T, now).tag = "some"

\* Concurrent set call p has returned.
Done(p) == run.set[p].pc = "done"

\* C15: two set calls on one key that interleave at single file operations
\* both return success, and the entry file finally holds the value of one of
\* the two calls.
C15_ConcurrentSetsSucceed ==
    (Done(1) /\ Done(2))
        => /\ run.set[1].res = OkUnit
           /\ run.set[2].res = OkUnit
           /\ dir[FilePath(watch)].exists
           /\ dir[FilePath(watch)].data \in
                 {SerdeToString(run.set[1].val), SerdeToString(run.set[2].val)}

\* C16: after two interleaved set calls have both completed, the entry file
\* and the expiry file both come from the call that completed last; the
\* value of one call is never paired with the expiry of the other.
C16_LastWriteWins ==
    (Done(1) /\ Done(2) /\ run.set[1].res = OkUnit /\ run.set[2].res = OkUnit)
        => /\ run.entryBy = run.finished[2]
           /\ run.expiryBy \in {0, run.finished[2]}

\* C17: after a sweep and a set(K, V, ttl) on an expired key K have both
\* completed, either K's new entry file and its expiry file are both present
\* or K's entry file is gone.
C17_SweepRaceFailsOpen ==
    (Done(1) /\ run.gc.pc = "done" /\ run.set[1].ttl # NoTTL)
        => \/ ~dir[FilePath(watch)].exists
           \/ /\ dir[FilePath(watch)].data = SerdeToString(run.set[1].val)
              /\ dir[ExpiryFilePath(watch)].exists

====
